---- MODULE Spec2Model ----
(***************************************************************************)
(* Model of the backtesting core of Trading_bot:                           *)
(*   trading_bot/exec/backtest_exec.py     BacktestExec.run, _pip          *)
(*   trading_bot/risk/risk_manager.py      step_round, compute_volume      *)
(*   trading_bot/strategy/distance_time.py DistanceTime.on_bar, _pip       *)
(*                                                                         *)
(* Units.  The code computes on floats; the model computes on the decimal  *)
(* grid the quantities live on, with exact integer arithmetic:             *)
(*   prices      in units of 0.0001 (one pip at digits = 5),               *)
(*   volumes     in units of 0.01 lot,                                     *)
(*   money       in tenths of the account currency,                        *)
(*   ratios      as records [num, den] with den > 0.                       *)
(* Comparisons between stored values are exact on floats as on the grid.   *)
(* A float quotient that is floored or compared with a threshold is not:   *)
(* when the exact quotient sits on the step or on the threshold, the float *)
(* the code computes may lie just below it (step_round(0.03, 0.01) is      *)
(* 0.02, (1.1070 - 1.1000) / 0.0001 is 69.99999999999895).  Such a         *)
(* quotient carries a flag "below", chosen freely at every evaluation.     *)
(* In these units (exit - entry) * volume * 100000 of the code is          *)
(* (exit - entry) * volume:  1e-4 * 1e-2 * 1e5 = 1e-1.                     *)
(* Candle.volume is never read by the modelled code and is left out.       *)
(***************************************************************************)
EXTENDS Integers, Sequences, FiniteSets, TLC

VARIABLES
    pc,            \* "loop": inside run's for-loop; "done": run returned;
                   \* "call"/"ret": a direct call of compute_volume;
                   \* "pip"/"pipret": a direct call of the two _pip
    cfg,           \* the configuration object handed to BacktestExec / DistanceTime
    n,             \* number of bars consumed from the feed
    window,        \* DistanceTime.window (deque with maxlen)
    bar,           \* loop variable bar of run (None before the first bar)
    sig,           \* loop variable sig of run
    equity,        \* local equity of run
    trades,        \* local trades (closed-trade list) of run
    open_trade,    \* local open_trade of run
    equity_curve,  \* local equity_curve of run
    created,       \* number of Trade objects run has constructed
    stats,         \* the Stats returned by run (None until it returns)
    equity_csv,    \* rows written to equity.csv
    cv,            \* arguments and result of a direct compute_volume or _pip call
    rerun,         \* a list feed run twice: the feed, which call is running,
                   \* the strategy it got, the first call's results, the
                   \* signals on_bar has returned in this call, and the float
                   \* quotients evaluated so far (None: a feed consumed once)
    par            \* a second call of run in progress in another thread, on
                   \* its own engine and strategy: that call's position,
                   \* locals and window while it is not the one taking steps
                   \* (None: one call at a time)

vars == <<pc, cfg, n, window, bar, sig, equity, trades, open_trade,
          equity_curve, created, stats, equity_csv, cv, rerun, par>>

None == [tag |-> "None"]

\* ------------------------------------------------------------------ bounds
MaxBars == 4

\* longest list feed that is run twice
MaxFeed == 3

\* ------------------------------------------------------- program constants
VOL_MIN == 1
VOL_STEP == 1
VOL_MAX == 1000
InitialEquity == 100000
PeakInit == -2000000000

\* ------------------------------------------------------------- input sets
Prices == {0, 100, 200}

Ratio(a, b) == [num |-> a, den |-> b]

\* the float a / b: exactly a / b, or (below) the nearest float toward zero
Quot(a, b, below) == [num |-> a, den |-> b, below |-> below]

\* configurations: (risk_pct, window_minutes, distance_pips, sl_pips, tp_rr)
Config(r, w, d, sl, t) ==
    [risk_pct |-> r,
     strategy |-> [window_minutes |-> w, distance_pips |-> d,
                   sl_pips |-> sl, tp_rr |-> t]]

Configs ==
    { Config(Ratio(1, 1), 1, 0, 100, 1),
      Config(Ratio(1, 4096), 2, 100, 100, 2),
      Config(Ratio(1, 1), 1, 200, 200, 1) }

\* the bars a feed may yield: every well-formed bar over Prices, and four
\* malformed ones (the feed is not validated)
Candle(time, open, high, low, close) ==
    [time |-> time, open |-> open, high |-> high, low |-> low, close |-> close]

WellFormed(b) ==
    /\ b.low <= b.open /\ b.open <= b.high
    /\ b.low <= b.close /\ b.close <= b.high

Malformed ==
    { Candle(0, 200, 0, 0, 0), Candle(0, 0, 200, 200, 200),
      Candle(0, 100, 100, 100, 200), Candle(0, 100, 100, 100, 0) }

Bars ==
    { b \in { Candle(0, o, h, l, c) : o \in Prices, h \in Prices,
                                      l \in Prices, c \in Prices } :
        WellFormed(b) } \cup Malformed

\* The feed yields bars in order; the i-th bar carries time BarTime(i).
BarTime(i) == 60 * i

\* ------------------------------------------------------------ arithmetic
abs(x) == IF x < 0 THEN -x ELSE x

\* Python's max(a, b) / min(a, b) on numbers
max(a, b) == IF b > a THEN b ELSE a

min(a, b) == IF b < a THEN b ELSE a

sgn(x) == IF x > 0 THEN 1 ELSE IF x < 0 THEN -1 ELSE 0

\* integer part of a / b, rounded toward zero (b > 0): ROUND_DOWN of decimal
RoundDown(a, b) == IF a >= 0 THEN a \div b ELSE -((-a) \div b)

\* ------------------------------------------------ risk/risk_manager.py
\* the quotient x is a non-zero multiple of step
OnStep(x, step) == x.num # 0 /\ x.num % (x.den * step) = 0

\* step_round(x, step): x is the float quotient x.num / x.den.  Decimal(x)
\* is the float's exact value, so a quotient on a step counts as below it
\* when the float is.
\* step_round rounding away from zero
step_round_up(x, step) ==
    LET k == RoundDown(x.num, x.den * step)
    IN  IF x.num % (x.den * step) = 0 THEN k * step
        ELSE (k + (IF x.num > 0 THEN 1 ELSE -1)) * step

step_round(x, step) ==
    LET k == RoundDown(x.num, x.den * step)
    IN  IF x.below /\ OnStep(x, step) THEN (k - sgn(k)) * step ELSE k * step

\* compute_volume without the clamp to vol_min
compute_volume_no_min(eq, entry, sl, risk_pct, vol_min, vol_step, vol_max, below) ==
    LET risk_amt == Ratio(eq * risk_pct.num, risk_pct.den)
        stop == abs(entry - sl)
    IN  IF stop = 0
        THEN vol_min
        ELSE LET raw == Quot(risk_amt.num * 1000, risk_amt.den * stop, below)
             IN  min(vol_max, step_round(raw, vol_step))

\* compute_volume answering a zero stop distance with no volume
compute_volume_zero_stop(eq, entry, sl, risk_pct, vol_min, vol_step, vol_max, below) ==
    LET risk_amt == Ratio(eq * risk_pct.num, risk_pct.den)
        stop == abs(entry - sl)
    IN  IF stop = 0
        THEN 0
        ELSE LET raw == Quot(risk_amt.num * 1000, risk_amt.den * stop, below)
             IN  max(vol_min, min(vol_max, step_round(raw, vol_step)))

\* below: the outcome of the float division raw = risk_amt / stop
compute_volume(eq, entry, sl, risk_pct, vol_min, vol_step, vol_max, below) ==
    LET risk_amt == Ratio(eq * risk_pct.num, risk_pct.den)
        stop == abs(entry - sl)
    IN  IF stop = 0
        THEN vol_min
        ELSE LET raw == Quot(risk_amt.num * 1000, risk_amt.den * stop, below)
             IN  max(vol_min, min(vol_max, step_round(raw, vol_step)))

\* ------------------------------------------- strategy/distance_time.py
\* DistanceTime._pip with the one-digit quotes left out
_pip_two_three(digits) == IF digits \in {2, 3} THEN 100 ELSE 1

\* DistanceTime._pip, in units of 0.0001
_pip(digits) == IF digits \in {1, 2, 3} THEN 100 ELSE 1

Signal(side, sl_price, tp_price) ==
    [side |-> side, sl_price |-> sl_price, tp_price |-> tp_price]

maxlen(c) == max(1, c.strategy.window_minutes)

\* a list that is appended to and never truncated
append_unbounded(w, b, m) == Append(w, b)

\* deque(maxlen = m).append(b)
append(w, b, m) == IF Len(w) >= m THEN Append(Tail(w), b) ELSE Append(w, b)

SeqMax(S) == CHOOSE x \in S : \A y \in S : y <= x

SeqMin(S) == CHOOSE x \in S : \A y \in S : x <= y

\* the non-zero quotient x equals the threshold
OnThreshold(x, threshold) == x.num # 0 /\ x.num = threshold * x.den

\* on_bar without the warm-up test
signal_no_warmup(c, w, digits, below) ==
    LET hi == SeqMax({w[i].high : i \in 1..Len(w)})
        lo == SeqMin({w[i].low : i \in 1..Len(w)})
        s == c.strategy
        dist_pips == Quot(hi - lo, _pip(digits), below)
    IN  IF \/ dist_pips.num < s.distance_pips * dist_pips.den
           \/ dist_pips.below /\ OnThreshold(dist_pips, s.distance_pips)
        THEN None
        ELSE LET last == w[Len(w)].close
                 pip == _pip(digits)
             IN  IF last >= hi
                 THEN Signal("long", last - s.sl_pips * pip,
                             last + s.sl_pips * s.tp_rr * pip)
                 ELSE IF last <= lo
                 THEN Signal("short", last + s.sl_pips * pip,
                             last - s.sl_pips * s.tp_rr * pip)
                 ELSE None

\* on_bar measuring the levels from the latest bar's open
signal_from_open(c, w, digits, below) ==
    IF Len(w) < maxlen(c)
    THEN None
    ELSE LET hi == SeqMax({w[i].high : i \in 1..Len(w)})
             lo == SeqMin({w[i].low : i \in 1..Len(w)})
             s == c.strategy
             dist_pips == Quot(hi - lo, _pip(digits), below)
         IN  IF \/ dist_pips.num < s.distance_pips * dist_pips.den
                \/ dist_pips.below /\ OnThreshold(dist_pips, s.distance_pips)
             THEN None
             ELSE LET last == w[Len(w)].close
                      base == w[Len(w)].open
                      pip == _pip(digits)
                  IN  IF last >= hi
                      THEN Signal("long", base - s.sl_pips * pip,
                                  base + s.sl_pips * s.tp_rr * pip)
                      ELSE IF last <= lo
                      THEN Signal("short", base + s.sl_pips * pip,
                                  base - s.sl_pips * s.tp_rr * pip)
                      ELSE None

\* on_bar without the test of the window's range against the distance
signal_no_threshold(c, w, digits, below) ==
    IF Len(w) < maxlen(c)
    THEN None
    ELSE LET hi == SeqMax({w[i].high : i \in 1..Len(w)})
             lo == SeqMin({w[i].low : i \in 1..Len(w)})
             s == c.strategy
             last == w[Len(w)].close
             pip == _pip(digits)
         IN  IF last >= hi
             THEN Signal("long", last - s.sl_pips * pip,
                         last + s.sl_pips * s.tp_rr * pip)
             ELSE IF last <= lo
             THEN Signal("short", last + s.sl_pips * pip,
                         last - s.sl_pips * s.tp_rr * pip)
             ELSE None

\* on_bar taking the extremes of the window from the closes
signal_close_extremes(c, w, digits, below) ==
    IF Len(w) < maxlen(c)
    THEN None
    ELSE LET hi == SeqMax({w[i].close : i \in 1..Len(w)})
             lo == SeqMin({w[i].close : i \in 1..Len(w)})
             s == c.strategy
             dist_pips == Quot(hi - lo, _pip(digits), below)
         IN  IF \/ dist_pips.num < s.distance_pips * dist_pips.den
                \/ dist_pips.below /\ OnThreshold(dist_pips, s.distance_pips)
             THEN None
             ELSE LET last == w[Len(w)].close
                      pip == _pip(digits)
                  IN  IF last >= hi
                      THEN Signal("long", last - s.sl_pips * pip,
                                  last + s.sl_pips * s.tp_rr * pip)
                      ELSE IF last <= lo
                      THEN Signal("short", last + s.sl_pips * pip,
                                  last - s.sl_pips * s.tp_rr * pip)
                      ELSE None

\* on_bar testing the short side before the long side
signal_short_first(c, w, digits, below) ==
    IF Len(w) < maxlen(c)
    THEN None
    ELSE LET hi == SeqMax({w[i].high : i \in 1..Len(w)})
             lo == SeqMin({w[i].low : i \in 1..Len(w)})
             s == c.strategy
             dist_pips == Quot(hi - lo, _pip(digits), below)
         IN  IF \/ dist_pips.num < s.distance_pips * dist_pips.den
                \/ dist_pips.below /\ OnThreshold(dist_pips, s.distance_pips)
             THEN None
             ELSE LET last == w[Len(w)].close
                      pip == _pip(digits)
                  IN  IF last <= lo
                      THEN Signal("short", last + s.sl_pips * pip,
                                  last - s.sl_pips * s.tp_rr * pip)
                      ELSE IF last >= hi
                      THEN Signal("long", last - s.sl_pips * pip,
                                  last + s.sl_pips * s.tp_rr * pip)
                      ELSE None

\* the value on_bar returns once the bar has been appended: w is the window,
\* below the outcome of the float division dist_pips = (hi - lo) / pip
signal(c, w, digits, below) ==
    IF Len(w) < maxlen(c)
    THEN None
    ELSE LET hi == SeqMax({w[i].high : i \in 1..Len(w)})
             lo == SeqMin({w[i].low : i \in 1..Len(w)})
             s == c.strategy
             dist_pips == Quot(hi - lo, _pip(digits), below)
         IN  IF \/ dist_pips.num < s.distance_pips * dist_pips.den
                \/ dist_pips.below /\ OnThreshold(dist_pips, s.distance_pips)
             THEN None
             ELSE LET last == w[Len(w)].close
                      pip == _pip(digits)
                  IN  IF last >= hi
                      THEN Signal("long", last - s.sl_pips * pip,
                                  last + s.sl_pips * s.tp_rr * pip)
                      ELSE IF last <= lo
                      THEN Signal("short", last + s.sl_pips * pip,
                                  last - s.sl_pips * s.tp_rr * pip)
                      ELSE None

\* ------------------------------------------------ exec/backtest_exec.py
\* BacktestExec._pip, in units of 0.0001
BacktestExec_pip(digits) == IF digits \in {1, 2, 3} THEN 100 ELSE 1

Trade(entry_time, exit_time, side, entry_price, exit_price, volume, sl_price, tp_price) ==
    [entry_time |-> entry_time, exit_time |-> exit_time, side |-> side,
     entry_price |-> entry_price, exit_price |-> exit_price, volume |-> volume,
     sl_price |-> sl_price, tp_price |-> tp_price]

\* hit_sl with strict comparisons
hit_sl_strict(t, b) == IF t.side = "long" THEN b.low < t.sl_price ELSE b.high > t.sl_price

hit_sl(t, b) == IF t.side = "long" THEN b.low <= t.sl_price ELSE b.high >= t.sl_price

hit_tp(t, b) == IF t.side = "long" THEN b.high >= t.tp_price ELSE b.low <= t.tp_price

\* sign ignoring the side
sign_long(t) == 1

sign(t) == IF t.side = "long" THEN 1 ELSE -1

\* pnl_t of a closed trade (exit_price is <<price>>)
pnl_t(t) == (t.exit_price[1] - t.entry_price) * sign(t) * t.volume

\* Open filling at the signal bar's close
Open_at_close(b, s, below) ==
    LET entry == b.close
        vol == compute_volume(equity, entry, s.sl_price, cfg.risk_pct,
                              VOL_MIN, VOL_STEP, VOL_MAX, below)
    IN  /\ open_trade' = Trade(b.time, <<>>, s.side, entry, <<>>, vol,
                               s.sl_price, s.tp_price)
        /\ created' = created + 1
        /\ equity_curve' = Append(equity_curve, <<b.time, equity>>)
        /\ UNCHANGED <<equity, trades>>

\* Open sizing on the initial equity
Open_initial_equity(b, s, below) ==
    LET entry == b.open
        vol == compute_volume(InitialEquity, entry, s.sl_price, cfg.risk_pct,
                              VOL_MIN, VOL_STEP, VOL_MAX, below)
    IN  /\ open_trade' = Trade(b.time, <<>>, s.side, entry, <<>>, vol,
                               s.sl_price, s.tp_price)
        /\ created' = created + 1
        /\ equity_curve' = Append(equity_curve, <<b.time, equity>>)
        /\ UNCHANGED <<equity, trades>>

\* Open recording the equity marked to the bar's close
Open_mark_to_market(b, s, below) ==
    LET entry == b.open
        vol == compute_volume(equity, entry, s.sl_price, cfg.risk_pct,
                              VOL_MIN, VOL_STEP, VOL_MAX, below)
        t == Trade(b.time, <<>>, s.side, entry, <<>>, vol,
                   s.sl_price, s.tp_price)
    IN  /\ open_trade' = t
        /\ created' = created + 1
        /\ equity_curve' = Append(equity_curve,
                                  <<b.time, equity + (b.close - entry) * sign(t) * vol>>)
        /\ UNCHANGED <<equity, trades>>

\* branch "if sig and not open_trade": open a trade on bar b
Open(b, s, below) ==
    LET entry == b.open
        vol == compute_volume(equity, entry, s.sl_price, cfg.risk_pct,
                              VOL_MIN, VOL_STEP, VOL_MAX, below)
    IN  /\ open_trade' = Trade(b.time, <<>>, s.side, entry, <<>>, vol,
                               s.sl_price, s.tp_price)
        /\ created' = created + 1
        /\ equity_curve' = Append(equity_curve, <<b.time, equity>>)
        /\ UNCHANGED <<equity, trades>>

\* Manage with the take-profit tested first
Manage_tp_first(b) ==
    IF hit_sl(open_trade, b) \/ hit_tp(open_trade, b)
    THEN LET exit_price == IF hit_tp(open_trade, b) THEN open_trade.tp_price
                           ELSE open_trade.sl_price
             closed == [open_trade EXCEPT !.exit_time = <<b.time>>,
                                          !.exit_price = <<exit_price>>]
         IN  /\ equity' = equity + pnl_t(closed)
             /\ trades' = Append(trades, closed)
             /\ open_trade' = None
             /\ equity_curve' = Append(equity_curve, <<b.time, equity'>>)
             /\ UNCHANGED created
    ELSE /\ equity_curve' = Append(equity_curve, <<b.time, equity>>)
         /\ UNCHANGED <<equity, trades, open_trade, created>>

\* Manage filling at the bar's close
Manage_at_close(b) ==
    IF hit_sl(open_trade, b) \/ hit_tp(open_trade, b)
    THEN LET exit_price == b.close
             closed == [open_trade EXCEPT !.exit_time = <<b.time>>,
                                          !.exit_price = <<exit_price>>]
         IN  /\ equity' = equity + pnl_t(closed)
             /\ trades' = Append(trades, closed)
             /\ open_trade' = None
             /\ equity_curve' = Append(equity_curve, <<b.time, equity'>>)
             /\ UNCHANGED created
    ELSE /\ equity_curve' = Append(equity_curve, <<b.time, equity>>)
         /\ UNCHANGED <<equity, trades, open_trade, created>>

\* Manage recording the equity from before the close
Manage_stale_point(b) ==
    IF hit_sl(open_trade, b) \/ hit_tp(open_trade, b)
    THEN LET exit_price == IF hit_sl(open_trade, b) THEN open_trade.sl_price
                           ELSE open_trade.tp_price
             closed == [open_trade EXCEPT !.exit_time = <<b.time>>,
                                          !.exit_price = <<exit_price>>]
         IN  /\ equity' = equity + pnl_t(closed)
             /\ trades' = Append(trades, closed)
             /\ open_trade' = None
             /\ equity_curve' = Append(equity_curve, <<b.time, equity>>)
             /\ UNCHANGED created
    ELSE /\ equity_curve' = Append(equity_curve, <<b.time, equity>>)
         /\ UNCHANGED <<equity, trades, open_trade, created>>

\* Manage trailing the stop of a trade that stays open
Manage_trailing(b) ==
    IF hit_sl(open_trade, b) \/ hit_tp(open_trade, b)
    THEN LET exit_price == IF hit_sl(open_trade, b) THEN open_trade.sl_price
                           ELSE open_trade.tp_price
             closed == [open_trade EXCEPT !.exit_time = <<b.time>>,
                                          !.exit_price = <<exit_price>>]
         IN  /\ equity' = equity + pnl_t(closed)
             /\ trades' = Append(trades, closed)
             /\ open_trade' = None
             /\ equity_curve' = Append(equity_curve, <<b.time, equity'>>)
             /\ UNCHANGED created
    ELSE /\ equity_curve' = Append(equity_curve, <<b.time, equity>>)
         /\ open_trade' = [open_trade EXCEPT !.sl_price =
                              IF open_trade.side = "long"
                              THEN max(open_trade.sl_price, b.low)
                              ELSE min(open_trade.sl_price, b.high)]
         /\ UNCHANGED <<equity, trades, created>>

\* Manage setting only the exit price of the trade it closes
Manage_no_exit_time(b) ==
    IF hit_sl(open_trade, b) \/ hit_tp(open_trade, b)
    THEN LET exit_price == IF hit_sl(open_trade, b) THEN open_trade.sl_price
                           ELSE open_trade.tp_price
             closed == [open_trade EXCEPT !.exit_price = <<exit_price>>]
         IN  /\ equity' = equity + pnl_t(closed)
             /\ trades' = Append(trades, closed)
             /\ open_trade' = None
             /\ equity_curve' = Append(equity_curve, <<b.time, equity'>>)
             /\ UNCHANGED created
    ELSE /\ equity_curve' = Append(equity_curve, <<b.time, equity>>)
         /\ UNCHANGED <<equity, trades, open_trade, created>>

\* branch "if open_trade": test the levels of the open trade against bar b
Manage(b) ==
    IF hit_sl(open_trade, b) \/ hit_tp(open_trade, b)
    THEN LET exit_price == IF hit_sl(open_trade, b) THEN open_trade.sl_price
                           ELSE open_trade.tp_price
             closed == [open_trade EXCEPT !.exit_time = <<b.time>>,
                                          !.exit_price = <<exit_price>>]
         IN  /\ equity' = equity + pnl_t(closed)
             /\ trades' = Append(trades, closed)
             /\ open_trade' = None
             /\ equity_curve' = Append(equity_curve, <<b.time, equity'>>)
             /\ UNCHANGED created
    ELSE /\ equity_curve' = Append(equity_curve, <<b.time, equity>>)
         /\ UNCHANGED <<equity, trades, open_trade, created>>

\* the quotient dist_pips of window w sits on the threshold
DistOnThreshold(w) ==
    /\ Len(w) = maxlen(cfg)
    /\ OnThreshold(Quot(SeqMax({w[i].high : i \in 1..Len(w)})
                           - SeqMin({w[i].low : i \in 1..Len(w)}),
                        _pip(5), TRUE),
                   cfg.strategy.distance_pips)

\* signal s opens a trade on bar b and the quotient raw sits on a step
RawOnStep(b, s) ==
    /\ s # None
    /\ open_trade = None
    /\ b.open # s.sl_price
    /\ OnStep(Quot(equity * cfg.risk_pct.num * 1000,
                   cfg.risk_pct.den * abs(b.open - s.sl_price), TRUE),
              VOL_STEP)

\* a flag is set only where its quotient sits on the threshold or on the step:
\* elsewhere both outcomes of the division give the same iteration
Effective(fl, b, w, s) ==
    /\ fl.dist => DistOnThreshold(w)
    /\ fl.raw => RawOnStep(b, s)

\* Iterate accepting a signal while a trade is open
Iterate_reopen(b, fl) ==
    /\ bar' = b
    /\ window' = append(window, b, maxlen(cfg))
    /\ sig' = signal(cfg, window', 5, fl.dist)
    /\ Effective(fl, b, window', sig')
    /\ IF sig' # None
       THEN Open(b, sig', fl.raw)
       ELSE IF open_trade # None
       THEN Manage(b)
       ELSE /\ equity_curve' = Append(equity_curve, <<b.time, equity>>)
            /\ UNCHANGED <<equity, trades, open_trade, created>>

\* Iterate without the "continue" after opening: the new trade is tested
\* against its entry bar
Iterate_fall_through(b, fl) ==
    /\ bar' = b
    /\ window' = append(window, b, maxlen(cfg))
    /\ sig' = signal(cfg, window', 5, fl.dist)
    /\ Effective(fl, b, window', sig')
    /\ IF sig' # None /\ open_trade = None
       THEN LET vol == compute_volume(equity, b.open, sig'.sl_price, cfg.risk_pct,
                                      VOL_MIN, VOL_STEP, VOL_MAX, fl.raw)
                t == Trade(b.time, <<>>, sig'.side, b.open, <<>>, vol,
                           sig'.sl_price, sig'.tp_price)
                point == <<b.time, equity>>
            IN  IF hit_sl(t, b) \/ hit_tp(t, b)
                THEN LET exit_price == IF hit_sl(t, b) THEN t.sl_price ELSE t.tp_price
                         closed == [t EXCEPT !.exit_time = <<b.time>>,
                                             !.exit_price = <<exit_price>>]
                     IN  /\ equity' = equity + pnl_t(closed)
                         /\ trades' = Append(trades, closed)
                         /\ open_trade' = None
                         /\ created' = created + 1
                         /\ equity_curve' = Append(equity_curve, <<b.time, equity'>>)
                ELSE /\ open_trade' = t
                     /\ created' = created + 1
                     /\ equity_curve' = Append(equity_curve, point)
                     /\ UNCHANGED <<equity, trades>>
       ELSE IF open_trade # None
       THEN Manage(b)
       ELSE /\ equity_curve' = Append(equity_curve, <<b.time, equity>>)
            /\ UNCHANGED <<equity, trades, open_trade, created>>

\* Iterate opening a new trade on the bar that closes the open one
Iterate_open_after_close(b, fl) ==
    /\ bar' = b
    /\ window' = append(window, b, maxlen(cfg))
    /\ sig' = signal(cfg, window', 5, fl.dist)
    /\ Effective(fl, b, window', sig')
    /\ IF sig' # None /\ open_trade = None
       THEN Open(b, sig', fl.raw)
       ELSE IF open_trade # None
       THEN IF sig' # None /\ (hit_sl(open_trade, b) \/ hit_tp(open_trade, b))
            THEN LET exit_price == IF hit_sl(open_trade, b)
                                   THEN open_trade.sl_price
                                   ELSE open_trade.tp_price
                     closed == [open_trade EXCEPT !.exit_time = <<b.time>>,
                                                  !.exit_price = <<exit_price>>]
                 IN  /\ equity' = equity + pnl_t(closed)
                     /\ trades' = Append(trades, closed)
                     /\ open_trade' =
                           Trade(b.time, <<>>, sig'.side, b.open, <<>>,
                                 compute_volume(equity', b.open, sig'.sl_price,
                                                cfg.risk_pct, VOL_MIN, VOL_STEP,
                                                VOL_MAX, FALSE),
                                 sig'.sl_price, sig'.tp_price)
                     /\ created' = created + 1
                     /\ equity_curve' = Append(equity_curve, <<b.time, equity'>>)
            ELSE Manage(b)
       ELSE /\ equity_curve' = Append(equity_curve, <<b.time, equity>>)
            /\ UNCHANGED <<equity, trades, open_trade, created>>

\* Iterate consulting the strategy only while no trade is open
Iterate_skip_while_open(b, fl) ==
    /\ bar' = b
    /\ IF open_trade # None
       THEN /\ window' = window
            /\ sig' = None
            /\ ~fl.dist /\ ~fl.raw
            /\ Manage(b)
       ELSE /\ window' = append(window, b, maxlen(cfg))
            /\ sig' = signal(cfg, window', 5, fl.dist)
            /\ Effective(fl, b, window', sig')
            /\ IF sig' # None
               THEN Open(b, sig', fl.raw)
               ELSE /\ equity_curve' = Append(equity_curve, <<b.time, equity>>)
                    /\ UNCHANGED <<equity, trades, open_trade, created>>

\* one iteration of "for bar in feed" on bar b; fl.dist and fl.raw are the
\* outcomes of the two float divisions of the iteration
Iterate(b, fl) ==
    /\ bar' = b
    /\ window' = append(window, b, maxlen(cfg))
    /\ sig' = signal(cfg, window', 5, fl.dist)
    /\ Effective(fl, b, window', sig')
    /\ IF sig' # None /\ open_trade = None
       THEN Open(b, sig', fl.raw)
       ELSE IF open_trade # None
       THEN Manage(b)
       ELSE /\ equity_curve' = Append(equity_curve, <<b.time, equity>>)
            /\ UNCHANGED <<equity, trades, open_trade, created>>

OnBar ==
    /\ pc = "loop"
    /\ n < MaxBars
    /\ \E b \in Bars, fl \in [dist : BOOLEAN, raw : BOOLEAN] :
          Iterate([b EXCEPT !.time = BarTime(n + 1)], fl)
    /\ n' = n + 1
    /\ UNCHANGED <<pc, cfg, stats, equity_csv, cv, rerun, par>>

\* ---- after the loop: Stats
\* pnl assigned, not accumulated
SumPnl_last(ts) == IF ts = <<>> THEN 0 ELSE pnl_t(ts[Len(ts)])

RECURSIVE SumPnl(_)
SumPnl(ts) == IF ts = <<>> THEN 0 ELSE pnl_t(Head(ts)) + SumPnl(Tail(ts))

\* a trade that breaks even counted as a win
Wins_nonneg(ts) == Cardinality({i \in 1..Len(ts) : pnl_t(ts[i]) >= 0})

Wins(ts) == Cardinality({i \in 1..Len(ts) : pnl_t(ts[i]) > 0})

\* the drawdown measured from the first equity point, not the running peak
RECURSIVE MaxDD_from_first(_, _, _, _)
MaxDD_from_first(curve, k, peak, max_dd) ==
    IF k > Len(curve)
    THEN max_dd
    ELSE LET eq == curve[k][2]
             peak2 == IF k = 1 THEN eq ELSE peak
             dd == peak2 - eq
         IN  MaxDD_from_first(curve, k + 1, peak2, IF dd > max_dd THEN dd ELSE max_dd)

\* the max-drawdown loop from position k on, with the current peak and max_dd
RECURSIVE MaxDD(_, _, _, _)
MaxDD(curve, k, peak, max_dd) ==
    IF k > Len(curve)
    THEN max_dd
    ELSE LET eq == curve[k][2]
             peak2 == IF eq > peak THEN eq ELSE peak
             dd == peak2 - eq
         IN  MaxDD(curve, k + 1, peak2, IF dd > max_dd THEN dd ELSE max_dd)

\* peak following the equity down as well as up
RunningPeak_follow(curve, k) ==
    IF k = 0 THEN PeakInit ELSE curve[k][2]

\* the value of peak after the first k points of the max-drawdown loop
RECURSIVE RunningPeak(_, _)
RunningPeak(curve, k) ==
    IF k = 0
    THEN PeakInit
    ELSE LET peak == RunningPeak(curve, k - 1)
             eq == curve[k][2]
         IN  IF eq > peak THEN eq ELSE peak

Stats(n_trades, win_rate, pnl, max_dd, expectancy) ==
    [n_trades |-> n_trades, win_rate |-> win_rate, pnl |-> pnl,
     max_dd |-> max_dd, expectancy |-> expectancy]

\* Finish closing a trade that is still open at the last bar's close
Finish_close_open ==
    /\ pc = "loop"
    /\ LET ts == IF open_trade = None THEN trades
                 ELSE Append(trades, [open_trade EXCEPT !.exit_time = <<bar.time>>,
                                                        !.exit_price = <<bar.close>>])
           pnl == SumPnl(ts)
           wins == Wins(ts)
           win_rate == IF ts # <<>> THEN Ratio(wins, Len(ts)) ELSE Ratio(0, 1)
           max_dd == MaxDD(equity_curve, 1, PeakInit, 0)
           expectancy == IF ts # <<>> THEN Ratio(pnl, Len(ts)) ELSE Ratio(0, 1)
       IN  /\ stats' = Stats(Len(ts), win_rate, pnl, max_dd, expectancy)
           /\ equity_csv' = <<<<"time", "equity">>>> \o equity_curve
    /\ pc' = "done"
    /\ UNCHANGED <<cfg, n, window, bar, sig, equity, trades, open_trade,
                   equity_curve, created, cv, rerun, par>>

\* Finish dividing by the number of trades without testing it
Finish_unguarded ==
    /\ pc = "loop"
    /\ LET pnl == SumPnl(trades)
           wins == Wins(trades)
           win_rate == Ratio(wins, Len(trades))
           max_dd == MaxDD(equity_curve, 1, PeakInit, 0)
           expectancy == Ratio(pnl, Len(trades))
       IN  /\ stats' = Stats(Len(trades), win_rate, pnl, max_dd, expectancy)
           /\ equity_csv' = <<<<"time", "equity">>>> \o equity_curve
    /\ pc' = "done"
    /\ UNCHANGED <<cfg, n, window, bar, sig, equity, trades, open_trade,
                   equity_curve, created, cv, rerun, par>>

\* the feed is exhausted: compute Stats, write equity.csv, return
Finish ==
    /\ pc = "loop"
    /\ LET pnl == SumPnl(trades)
           wins == Wins(trades)
           win_rate == IF trades # <<>> THEN Ratio(wins, Len(trades)) ELSE Ratio(0, 1)
           max_dd == MaxDD(equity_curve, 1, PeakInit, 0)
           expectancy == IF trades # <<>> THEN Ratio(pnl, Len(trades)) ELSE Ratio(0, 1)
       IN  /\ stats' = Stats(Len(trades), win_rate, pnl, max_dd, expectancy)
           /\ equity_csv' = <<<<"time", "equity">>>> \o equity_curve
    /\ pc' = "done"
    /\ UNCHANGED <<cfg, n, window, bar, sig, equity, trades, open_trade,
                   equity_curve, created, cv, rerun, par>>

\* ---- a direct call of compute_volume with arbitrary arguments
CvEquities == {-100000, -30, 0, 30, 100000}

CvPrices == {0, 3, 10}

CvRisks == {Ratio(1, 1), Ratio(1, 1000)}

CvSteps == {1, 5}

CvBounds == {0, 1, 5, 10, 1000}

CvArgs ==
    { [equity |-> e, entry |-> en, sl |-> s, risk_pct |-> r,
       vol_min |-> a, vol_step |-> st, vol_max |-> b,
       below |-> bl, result |-> <<>>] :
        e \in CvEquities, en \in {0, 3}, s \in CvPrices, r \in CvRisks,
        st \in CvSteps, a \in CvBounds, b \in CvBounds, bl \in BOOLEAN }

ComputeVolume ==
    /\ pc = "call"
    /\ cv' = [cv EXCEPT !.result =
                <<compute_volume(cv.equity, cv.entry, cv.sl, cv.risk_pct,
                                 cv.vol_min, cv.vol_step, cv.vol_max,
                                 cv.below)>>]
    /\ pc' = "ret"
    /\ UNCHANGED <<cfg, n, window, bar, sig, equity, trades, open_trade,
                   equity_curve, created, stats, equity_csv, rerun, par>>

\* the digits of a direct call of the two _pip functions
PipDigits == -1..8

PipArgs == { [digits |-> d, exec |-> <<>>, strategy |-> <<>>] : d \in PipDigits }

\* BacktestExec._pip(digits) and DistanceTime._pip(digits)
CallPip ==
    /\ pc = "pip"
    /\ cv' = [cv EXCEPT !.exec = <<BacktestExec_pip(cv.digits)>>,
                        !.strategy = <<_pip(cv.digits)>>]
    /\ pc' = "pipret"
    /\ UNCHANGED <<cfg, n, window, bar, sig, equity, trades, open_trade,
                   equity_curve, created, stats, equity_csv, rerun, par>>

\* ---------------------------------------------------------- specification
\* the locals of run and the strategy's window before the first bar
InitRun ==
    /\ n = 0
    /\ window = <<>>
    /\ bar = None
    /\ sig = None
    /\ equity = InitialEquity
    /\ trades = <<>>
    /\ open_trade = None
    /\ equity_curve = <<>>
    /\ created = 0
    /\ stats = None
    /\ equity_csv = <<>>

Init ==
    \/ /\ pc = "loop"
       /\ cfg \in Configs
       /\ InitRun
       /\ cv = None
       /\ rerun = None
       /\ par = None
    \/ /\ pc = "call"
       /\ cfg = None
       /\ InitRun
       /\ cv \in CvArgs
       /\ rerun = None
       /\ par = None
    \/ /\ pc = "pip"
       /\ cfg = None
       /\ InitRun
       /\ cv \in PipArgs
       /\ rerun = None
       /\ par = None

Next == OnBar \/ Finish \/ ComputeVolume \/ CallPip

Spec == Init /\ [][Next]_vars

\* ------------------------------------------------- one list feed, run twice
\* the bars of a list feed
ReplayBars ==
    { Candle(0, 100, 200, 100, 200), Candle(0, 0, 200, 0, 200),
      Candle(0, 200, 200, 0, 0), Candle(0, 100, 100, 0, 0),
      Candle(0, 100, 100, 100, 100), Candle(0, 100, 200, 0, 100) }

Feeds ==
    UNION { { [i \in 1..k |-> [f[i] EXCEPT !.time = BarTime(i)]] :
                f \in [1..k -> ReplayBars] } : k \in 0..MaxFeed }

\* a float division is a function of its operands: the quotient of operands
\* already divided in an earlier iteration or in the earlier call has the
\* outcome it had then
FloatEval(op, args, below) == [op |-> op, args |-> args, below |-> below]

Evaluated(fl, b, w, s) ==
    { FloatEval("dist", <<SeqMax({w[i].high : i \in 1..Len(w)}),
                          SeqMin({w[i].low : i \in 1..Len(w)})>>, fl.dist) :
        x \in {1} \cap {IF DistOnThreshold(w) THEN 1 ELSE 0} }
    \cup
    { FloatEval("raw", <<equity, b.open, s.sl_price>>, fl.raw) :
        x \in {1} \cap {IF RawOnStep(b, s) THEN 1 ELSE 0} }

Repeatable(evals) ==
    \A e \in evals, d \in rerun.floats :
        (e.op = d.op /\ e.args = d.args) => e.below = d.below

\* FeedBar reading the next bar without consuming it
FeedBar_peek ==
    /\ pc = "loop"
    /\ rerun # None
    /\ n < Len(rerun.feed)
    /\ \E fl \in [dist : BOOLEAN, raw : BOOLEAN] :
          LET b == rerun.feed[n + 1]
          IN  /\ Iterate(b, fl)
              /\ Repeatable(Evaluated(fl, b, window', sig'))
              /\ rerun' = [rerun EXCEPT
                             !.signals = Append(@, sig'),
                             !.floats = @ \cup Evaluated(fl, b, window', sig')]
    /\ n' = n
    /\ UNCHANGED <<pc, cfg, stats, equity_csv, cv, par>>

\* run's next iteration takes the next bar of the list
FeedBar ==
    /\ pc = "loop"
    /\ rerun # None
    /\ n < Len(rerun.feed)
    /\ \E fl \in [dist : BOOLEAN, raw : BOOLEAN] :
          LET b == rerun.feed[n + 1]
          IN  /\ Iterate(b, fl)
              /\ Repeatable(Evaluated(fl, b, window', sig'))
              /\ rerun' = [rerun EXCEPT
                             !.signals = Append(@, sig'),
                             !.floats = @ \cup Evaluated(fl, b, window', sig')]
    /\ n' = n + 1
    /\ UNCHANGED <<pc, cfg, stats, equity_csv, cv, par>>

\* the list is exhausted
FeedEnd ==
    /\ rerun # None
    /\ n = Len(rerun.feed)
    /\ Finish

\* StartRun leaving the closed-trade list of the earlier call in place
StartRun_stale_trades(w) ==
    /\ n' = 0
    /\ window' = w
    /\ bar' = None
    /\ sig' = None
    /\ equity' = InitialEquity
    /\ trades' = trades
    /\ open_trade' = None
    /\ equity_curve' = <<>>
    /\ created' = 0
    /\ stats' = None
    /\ UNCHANGED equity_csv

\* entry into run with a strategy whose window is w: the locals are set anew,
\* equity.csv is as the earlier call left it
StartRun(w) ==
    /\ n' = 0
    /\ window' = w
    /\ bar' = None
    /\ sig' = None
    /\ equity' = InitialEquity
    /\ trades' = <<>>
    /\ open_trade' = None
    /\ equity_curve' = <<>>
    /\ created' = 0
    /\ stats' = None
    /\ UNCHANGED equity_csv

\* the results of the call that has returned
Results ==
    [stats |-> stats, trades |-> trades, equity_curve |-> equity_curve,
     signals |-> rerun.signals]

\* RunAgainFresh with the window shared by every DistanceTime instance
RunAgainFresh_shared_window ==
    /\ pc = "done"
    /\ rerun # None
    /\ rerun.run_no = 1
    /\ StartRun(window)
    /\ rerun' = [rerun EXCEPT !.run_no = 2, !.strategy = "fresh",
                              !.first = Results, !.signals = <<>>]
    /\ pc' = "loop"
    /\ UNCHANGED <<cfg, cv, par>>

\* a second call of run on the same list, with the same engine and a
\* DistanceTime constructed anew from the configuration
RunAgainFresh ==
    /\ pc = "done"
    /\ rerun # None
    /\ rerun.run_no = 1
    /\ StartRun(<<>>)
    /\ rerun' = [rerun EXCEPT !.run_no = 2, !.strategy = "fresh",
                              !.first = Results, !.signals = <<>>]
    /\ pc' = "loop"
    /\ UNCHANGED <<cfg, cv, par>>

\* a second call of run on the same list, with the same engine and the same
\* strategy object
RunAgainSame ==
    /\ pc = "done"
    /\ rerun # None
    /\ rerun.run_no = 1
    /\ StartRun(window)
    /\ rerun' = [rerun EXCEPT !.run_no = 2, !.strategy = "same",
                              !.first = Results, !.signals = <<>>]
    /\ pc' = "loop"
    /\ UNCHANGED <<cfg, cv, par>>

InitRerun ==
    /\ pc = "loop"
    /\ cfg \in Configs
    /\ InitRun
    /\ cv = None
    /\ rerun \in { [feed |-> f, run_no |-> 1, strategy |-> "fresh",
                    first |-> None, signals |-> <<>>, floats |-> {}] :
                     f \in Feeds }
    /\ par = None

NextRerun == FeedBar \/ FeedEnd \/ RunAgainFresh \/ RunAgainSame

SpecRerun == InitRerun /\ [][NextRerun]_vars

\* one call of run on a list feed, run to its end: the loop is sequential
\* code, so an iteration or the return that can be taken is taken
NextFeed == FeedBar \/ FeedEnd

SpecFeed == InitRerun /\ [][NextFeed]_vars /\ WF_vars(NextFeed)

\* ------------------------------------- two calls of run in two threads
\* the bars of the list both calls iterate
ParBars ==
    { Candle(0, 0, 0, 0, 0), Candle(0, 100, 200, 100, 200),
      Candle(0, 200, 200, 0, 0) }

ParFeeds ==
    UNION { { [i \in 1..k |-> [f[i] EXCEPT !.time = BarTime(i)]] :
                f \in [1..k -> ParBars] } : k \in 0..MaxFeed }

\* the position, locals and window of the call taking steps
Context ==
    [pc |-> pc, cfg |-> cfg, n |-> n, window |-> window, bar |-> bar,
     sig |-> sig, equity |-> equity, trades |-> trades,
     open_trade |-> open_trade, equity_curve |-> equity_curve,
     created |-> created, stats |-> stats, feed |-> par.feed]

\* the scheduler passes control to the other thread; equity.csv, a fixed
\* path in the working directory of the process, is the same file for both
Switch ==
    /\ par # None
    /\ par' = Context
    /\ pc' = par.pc
    /\ cfg' = par.cfg
    /\ n' = par.n
    /\ window' = par.window
    /\ bar' = par.bar
    /\ sig' = par.sig
    /\ equity' = par.equity
    /\ trades' = par.trades
    /\ open_trade' = par.open_trade
    /\ equity_curve' = par.equity_curve
    /\ created' = par.created
    /\ stats' = par.stats
    /\ UNCHANGED <<equity_csv, cv, rerun>>

\* the running call's next iteration
ParBar ==
    /\ pc = "loop"
    /\ par # None
    /\ n < Len(par.feed)
    /\ \E fl \in [dist : BOOLEAN, raw : BOOLEAN] : Iterate(par.feed[n + 1], fl)
    /\ n' = n + 1
    /\ UNCHANGED <<pc, cfg, stats, equity_csv, cv, rerun, par>>

\* the Stats of the statements after the loop
RunStats ==
    LET pnl == SumPnl(trades)
        wins == Wins(trades)
        win_rate == IF trades # <<>> THEN Ratio(wins, Len(trades)) ELSE Ratio(0, 1)
        max_dd == MaxDD(equity_curve, 1, PeakInit, 0)
        expectancy == IF trades # <<>> THEN Ratio(pnl, Len(trades)) ELSE Ratio(0, 1)
    IN  Stats(Len(trades), win_rate, pnl, max_dd, expectancy)

\* open("equity.csv", "w"): the file is truncated; the rows written stay in
\* the file object's buffer
ParOpenFile ==
    /\ pc = "loop"
    /\ par # None
    /\ n = Len(par.feed)
    /\ equity_csv' = <<>>
    /\ pc' = "write"
    /\ UNCHANGED <<cfg, n, window, bar, sig, equity, trades, open_trade,
                   equity_curve, created, stats, cv, rerun, par>>

\* rows written from offset 0 over a file of the given content
Overlay(rows, file) ==
    IF Len(file) <= Len(rows) THEN rows
    ELSE rows \o SubSeq(file, Len(rows) + 1, Len(file))

\* the with-block ends: the buffer is written from this file object's own
\* offset 0, and run returns its Stats
ParCloseFile ==
    /\ pc = "write"
    /\ par # None
    /\ equity_csv' = Overlay(<<<<"time", "equity">>>> \o equity_curve, equity_csv)
    /\ stats' = RunStats
    /\ pc' = "done"
    /\ UNCHANGED <<cfg, n, window, bar, sig, equity, trades, open_trade,
                   equity_curve, created, cv, rerun, par>>

InitPar ==
    /\ pc = "loop"
    /\ cfg \in Configs
    /\ InitRun
    /\ cv = None
    /\ rerun = None
    /\ par \in { [pc |-> "loop", cfg |-> c, n |-> 0, window |-> <<>>,
                  bar |-> None, sig |-> None, equity |-> InitialEquity,
                  trades |-> <<>>, open_trade |-> None, equity_curve |-> <<>>,
                  created |-> 0, stats |-> None, feed |-> f] :
                   c \in Configs, f \in ParFeeds }

NextPar == ParBar \/ ParOpenFile \/ ParCloseFile \/ Switch

SpecPar == InitPar /\ [][NextPar]_vars

\* ------------------------------------------------------------------ claims
\* an iteration of run's loop has just been taken
Stepped == n' = n + 1

Last(q) == q[Len(q)]

\* the touch conditions and the realized pnl, as the specification words them
SlTouched(t, b) ==
    \/ t.side = "long" /\ b.low <= t.sl_price
    \/ t.side = "short" /\ b.high >= t.sl_price

TpTouched(t, b) ==
    \/ t.side = "long" /\ b.high >= t.tp_price
    \/ t.side = "short" /\ b.low <= t.tp_price

RealizedPnl(t) ==
    (t.exit_price[1] - t.entry_price) * (IF t.side = "long" THEN 1 ELSE -1) * t.volume

\* the bar index of a time stamp of the feed
BarIndex(time) == CHOOSE k \in 1..n : BarTime(k) = time

\* C1: after any prefix of the feed at most one Trade is open: the number of
\* trades created minus the number closed is 0 or 1 (1 exactly when
\* open_trade is set), and a Trade is created only when none is open.
C1_AtMostOneOpen ==
    /\ [](/\ created - Len(trades) \in {0, 1}
          /\ (open_trade # None) <=> (created - Len(trades) = 1))
    /\ [][created' # created => (open_trade = None /\ created' = created + 1)]_vars

\* a second trade is open and a further signal has arrived on a later bar
C1_Witness ==
    /\ created = 2 /\ Len(trades) = 1 /\ open_trade # None
    /\ sig # None /\ bar.time > open_trade.entry_time

\* C2: when the bar satisfies both the stop-loss and the take-profit
\* condition of the open trade, the trade closes at sl_price.
C2_StopLossPriority ==
    [][(Stepped /\ open_trade # None
          /\ SlTouched(open_trade, bar') /\ TpTouched(open_trade, bar'))
        => /\ open_trade' = None
           /\ Len(trades') = Len(trades) + 1
           /\ Last(trades').exit_price = <<open_trade.sl_price>>]_vars

\* a trade closed on a bar touching both of its (distinct) levels
C2_Witness ==
    /\ trades # <<>>
    /\ Last(trades).exit_time = <<bar.time>>
    /\ SlTouched(Last(trades), bar) /\ TpTouched(Last(trades), bar)
    /\ Last(trades).sl_price # Last(trades).tp_price
    /\ Last(trades).exit_price = <<Last(trades).sl_price>>

\* C3: on a bar after the entry bar the open trade closes iff the bar touches
\* its stop-loss or its take-profit; otherwise the trade, the equity and the
\* closed-trade list are unchanged.
C3_CloseIffTouched ==
    [][(Stepped /\ open_trade # None)
        => LET touched == SlTouched(open_trade, bar') \/ TpTouched(open_trade, bar')
           IN  /\ touched <=> (open_trade' = None /\ Len(trades') = Len(trades) + 1)
               /\ ~touched => /\ open_trade' = open_trade
                              /\ equity' = equity
                              /\ trades' = trades]_vars

\* a short trade has stayed open over a bar that touches neither level
C3_Witness ==
    /\ open_trade # None
    /\ open_trade.side = "short"
    /\ bar.time > open_trade.entry_time
    /\ ~SlTouched(open_trade, bar) /\ ~TpTouched(open_trade, bar)

\* C4: every closed trade was filled at exactly its own sl_price or tp_price.
C4_FillAtLevel ==
    \A i \in 1..Len(trades) :
        trades[i].exit_price \in {<<trades[i].sl_price>>, <<trades[i].tp_price>>}

\* a long trade closed on a bar that gapped below its stop: none of the bar's
\* prices is the fill price
C4_Witness ==
    /\ trades # <<>>
    /\ Last(trades).exit_time = <<bar.time>>
    /\ Last(trades).side = "long"
    /\ bar.high < Last(trades).sl_price
    /\ Last(trades).exit_price = <<Last(trades).sl_price>>
    /\ Last(trades).exit_price[1] \notin {bar.open, bar.high, bar.low, bar.close}

\* C5: after k bars the equity curve has k points, the i-th with the i-th
\* bar's time; the latest point holds the current equity, and the point of a
\* closing bar holds the previous point's equity plus that close's pnl.
C5_EquityCurve ==
    /\ Len(equity_curve) = n
    /\ \A k \in 1..n : equity_curve[k][1] = BarTime(k)
    /\ n > 0 => equity_curve[n] = <<bar.time, equity>>
    /\ \A i \in 1..Len(trades) :
          LET k == BarIndex(trades[i].exit_time[1])
          IN  /\ k > 1
              /\ equity_curve[k][2] = equity_curve[k - 1][2] + RealizedPnl(trades[i])

\* an opening bar, a closing bar with a non-zero pnl and a later idle bar
C5_Witness ==
    /\ Len(trades) = 1 /\ open_trade = None
    /\ RealizedPnl(trades[1]) # 0
    /\ trades[1].exit_time[1] < bar.time
    /\ Len(equity_curve) >= 3

\* C6: a close adds (exit_price - entry_price) * sign * volume * 100000 to
\* the equity (sign +1 long, -1 short), appends the trade, with its exit
\* fields set, to the closed-trade list and clears open_trade.
C6_CloseAccounting ==
    [][(Stepped /\ trades' # trades)
        => LET t == Last(trades')
           IN  /\ open_trade # None
               /\ t = [open_trade EXCEPT !.exit_time = <<bar'.time>>,
                                         !.exit_price = t.exit_price]
               /\ Len(t.exit_price) = 1
               /\ trades' = Append(trades, t)
               /\ equity' = equity + RealizedPnl(t)
               /\ open_trade' = None]_vars

\* a short trade has just been closed at a loss
C6_Witness ==
    /\ trades # <<>> /\ open_trade = None
    /\ Last(trades).exit_time = <<bar.time>>
    /\ Last(trades).side = "short"
    /\ RealizedPnl(Last(trades)) < 0
    /\ equity_curve[n][2] = equity_curve[n - 1][2] + RealizedPnl(Last(trades))

\* the fields of a trade fixed at creation
Fixed(t) == <<t.entry_time, t.side, t.entry_price, t.volume, t.sl_price, t.tp_price>>

\* C7: while a trade is open no Trade is created, whatever the strategy
\* returns, and the trade keeps the entry_time, side, entry_price, volume,
\* sl_price and tp_price of its creation on every bar, also once it is closed.
C7_SignalsIgnoredWhileOpen ==
    [][Stepped
        => /\ \A i \in 1..Len(trades) :
                 i <= Len(trades') /\ trades'[i] = trades[i]
           /\ open_trade # None
                 => /\ created' = created
                    /\ IF open_trade' # None
                       THEN open_trade' = open_trade
                       ELSE /\ Len(trades') = Len(trades) + 1
                            /\ Fixed(Last(trades')) = Fixed(open_trade)]_vars

\* the strategy has returned a signal of the other side on a bar after the
\* entry bar, and the trade is still open
C7_Witness ==
    /\ open_trade # None /\ sig # None
    /\ bar.time > open_trade.entry_time
    /\ sig.side # open_trade.side
    /\ sig.sl_price # open_trade.sl_price

\* C8: with no position at the start of bar B and a Signal returned for B, a
\* Trade is opened on B with entry_price = B.open, entry_time = B.time, the
\* signal's side, sl_price and tp_price, and no exit_time / exit_price.
C8_OpenOnSignal ==
    [][(Stepped /\ open_trade = None /\ sig' # None)
        => /\ open_trade' # None
           /\ open_trade'.entry_price = bar'.open
           /\ open_trade'.entry_time = bar'.time
           /\ open_trade'.side = sig'.side
           /\ open_trade'.sl_price = sig'.sl_price
           /\ open_trade'.tp_price = sig'.tp_price
           /\ open_trade'.exit_time = <<>>
           /\ open_trade'.exit_price = <<>>]_vars

\* a trade opened on a bar whose open differs from its close
C8_Witness ==
    /\ open_trade # None /\ sig # None
    /\ open_trade.entry_time = bar.time
    /\ bar.open # bar.close
    /\ open_trade.entry_price = bar.open

RECURSIVE SumRealized(_)
SumRealized(ts) == IF ts = <<>> THEN 0 ELSE RealizedPnl(Head(ts)) + SumRealized(Tail(ts))

\* every trade run has created, in creation order
AllTrades == trades \o (IF open_trade = None THEN <<>> ELSE <<open_trade>>)

\* C9: the volume of every trade is compute_volume of the equity current at
\* its opening bar (10000 plus the pnl of the trades closed before), its
\* entry price, its sl_price, the configured risk_pct and (0.01, 0.01, 10.0).
C9_VolumeFromCurrentEquity ==
    \A i \in 1..Len(AllTrades) :
        LET t == AllTrades[i]
            eq == 100000 + SumRealized(SubSeq(trades, 1, i - 1))
        IN  \E below \in BOOLEAN :
                t.volume = compute_volume(eq, t.entry_price, t.sl_price,
                                          cfg.risk_pct, 1, 1, 1000, below)

\* a second trade, opened on a positive equity, whose volume is not what the
\* initial equity gives
C9_Witness ==
    /\ Len(trades) = 1 /\ open_trade # None
    /\ equity > 0
    /\ \A below \in BOOLEAN :
          open_trade.volume # compute_volume(100000, open_trade.entry_price,
                                             open_trade.sl_price, cfg.risk_pct,
                                             1, 1, 1000, below)

\* C10: with vol_min <= vol_max, both multiples of vol_step, compute_volume
\* returns a multiple of vol_step in [vol_min, vol_max]; every Trade of run
\* has a volume in [0.01, 10.0] that is a multiple of 0.01.
C10_VolumeInBounds ==
    /\ (/\ pc = "ret"
        /\ cv.vol_min <= cv.vol_max
        /\ cv.vol_min % cv.vol_step = 0
        /\ cv.vol_max % cv.vol_step = 0)
          => /\ cv.vol_min <= cv.result[1]
             /\ cv.result[1] <= cv.vol_max
             /\ cv.result[1] % cv.vol_step = 0
    /\ \A i \in 1..Len(AllTrades) :
          /\ 1 <= AllTrades[i].volume
          /\ AllTrades[i].volume <= 1000
          /\ AllTrades[i].volume % 1 = 0

\* a trade opened, with a stop distance, on a negative equity
C10_Witness ==
    /\ open_trade # None
    /\ open_trade.entry_time = bar.time
    /\ equity < 0
    /\ open_trade.entry_price # open_trade.sl_price
    /\ open_trade.volume = 1

\* C11: compute_volume returns vol_min whenever entry equals the stop price,
\* for any equity and risk_pct; a trade run opens on a bar whose open equals
\* the signal's sl_price has volume 0.01.
C11_ZeroStopGivesVolMin ==
    /\ (pc = "ret" /\ cv.entry = cv.sl) => cv.result = <<cv.vol_min>>
    /\ \A i \in 1..Len(AllTrades) :
          AllTrades[i].entry_price = AllTrades[i].sl_price
             => AllTrades[i].volume = 1

\* a trade opened on a bar whose open is the signal's stop price, on an
\* equity that sizes any positive stop distance of the grid to 10 lots
C11_Witness ==
    /\ open_trade # None /\ sig # None
    /\ open_trade.entry_time = bar.time
    /\ bar.open = sig.sl_price
    /\ equity = 100000 /\ cfg.risk_pct = Ratio(1, 1)
    /\ open_trade.volume = 1

\* the value the specification gives compute_volume for a stop distance > 0:
\* the exact raw volume floored to the step, then clamped
FloorThenClamp(eq, entry, sl, risk_pct, vol_min, vol_step, vol_max) ==
    LET d == IF entry > sl THEN entry - sl ELSE sl - entry
        floored == ((eq * risk_pct.num * 1000) \div (risk_pct.den * d * vol_step))
                      * vol_step
        capped == IF floored > vol_max THEN vol_max ELSE floored
    IN  IF capped < vol_min THEN vol_min ELSE capped

\* C12: for a stop distance > 0 compute_volume returns the raw volume
\* equity * risk_pct / 100 / |entry - sl| quantized down to the largest
\* multiple of vol_step not exceeding it, then clamped to [vol_min, vol_max].
C12_FloorThenClamp ==
    (pc = "ret" /\ cv.entry # cv.sl)
       => cv.result = <<FloorThenClamp(cv.equity, cv.entry, cv.sl, cv.risk_pct,
                                       cv.vol_min, cv.vol_step, cv.vol_max)>>

\* the sized risk v * |entry - sl| is at most equity * risk_pct / 100
RiskWithinBound(v, eq, entry, sl, risk_pct) ==
    LET d == IF entry > sl THEN entry - sl ELSE sl - entry
    IN  v * d * risk_pct.den <= eq * risk_pct.num * 1000

\* C13 as stated: for every input with a stop distance > 0 the returned
\* volume v satisfies v * |entry - sl| <= equity * risk_pct / 100.
C13_RiskNeverExceeds ==
    (pc = "ret" /\ cv.entry # cv.sl)
       => RiskWithinBound(cv.result[1], cv.equity, cv.entry, cv.sl, cv.risk_pct)

\* C13, amended: the bound holds for every input with a stop distance > 0
\* whose raw volume is at least vol_min (below it the clamp raises the volume
\* to vol_min, above the raw volume).
C13_RiskBoundedFromVolMin ==
    (/\ pc = "ret" /\ cv.entry # cv.sl
     /\ RiskWithinBound(cv.vol_min, cv.equity, cv.entry, cv.sl, cv.risk_pct))
       => RiskWithinBound(cv.result[1], cv.equity, cv.entry, cv.sl, cv.risk_pct)

\* a raw volume strictly between two steps, returned floored and unclamped
C13_Witness ==
    /\ pc = "ret" /\ cv.entry # cv.sl
    /\ cv.vol_min < cv.result[1] /\ cv.result[1] < cv.vol_max
    /\ (cv.equity * cv.risk_pct.num * 1000)
          % (cv.risk_pct.den * abs(cv.entry - cv.sl) * cv.vol_step) # 0
    /\ RiskWithinBound(cv.result[1], cv.equity, cv.entry, cv.sl, cv.risk_pct)
    /\ ~RiskWithinBound(cv.result[1] + cv.vol_step, cv.equity, cv.entry, cv.sl,
                        cv.risk_pct)

\* the strategy's parameters as the specification names them (pip = 0.0001)
WindowSize == IF cfg.strategy.window_minutes > 1 THEN cfg.strategy.window_minutes ELSE 1

InRun == pc \in {"loop", "done"}

WindowFull == InRun /\ Len(window) = WindowSize

WindowHigh == CHOOSE h \in {window[i].high : i \in 1..Len(window)} :
                 \A i \in 1..Len(window) : window[i].high <= h

WindowLow == CHOOSE l \in {window[i].low : i \in 1..Len(window)} :
                \A i \in 1..Len(window) : l <= window[i].low

\* C14: on_bar returns no signal for each of the first N - 1 bars fed to a
\* fresh instance (N the window size), whatever their prices; no trade of run
\* has its entry on one of the first N - 1 bars of the feed.
C14_WarmUp ==
    InRun =>
       /\ (1 <= n /\ n < WindowSize) => sig = None
       /\ \A i \in 1..Len(AllTrades) :
             AllTrades[i].entry_time >= 60 * WindowSize

\* the first bar of a two-bar window is a breakout bar as wide as the
\* threshold, and no signal came back
C14_Witness ==
    /\ InRun /\ n = 1 /\ WindowSize = 2
    /\ bar.high - bar.low >= cfg.strategy.distance_pips
    /\ bar.close >= bar.high
    /\ sig = None /\ open_trade = None

\* C15: with a full window on_bar returns no signal when the window's range
\* in pips is strictly below the distance threshold, and a range exactly
\* equal to the threshold is eligible: a breakout close then gives a signal.
C15_ThresholdInclusive ==
    WindowFull =>
       /\ WindowHigh - WindowLow < cfg.strategy.distance_pips => sig = None
       /\ (/\ WindowHigh - WindowLow = cfg.strategy.distance_pips
           /\ (bar.close >= WindowHigh \/ bar.close <= WindowLow))
             => sig # None

\* C16: with a full window whose range meets the threshold on_bar returns a
\* long signal if the latest close >= window_high, else a short signal if the
\* latest close <= window_low, and no signal when the close lies strictly
\* between the two extremes.
C16_BreakoutDirection ==
    (WindowFull /\ WindowHigh - WindowLow >= cfg.strategy.distance_pips) =>
       /\ bar.close >= WindowHigh => (sig # None /\ sig.side = "long")
       /\ (bar.close < WindowHigh /\ bar.close <= WindowLow)
             => (sig # None /\ sig.side = "short")
       /\ (WindowLow < bar.close /\ bar.close < WindowHigh) => sig = None

\* C17: every trade of run has its stop-loss sl_pips * pip and its
\* take-profit sl_pips * tp_rr * pip away from its entry price, below and
\* above it for a long trade, mirrored for a short one.
C17_LevelsFromEntry ==
    \A i \in 1..Len(AllTrades) :
        LET t == AllTrades[i]
            s == cfg.strategy
        IN  IF t.side = "long"
            THEN /\ t.sl_price = t.entry_price - s.sl_pips
                 /\ t.tp_price = t.entry_price + s.sl_pips * s.tp_rr
            ELSE /\ t.sl_price = t.entry_price + s.sl_pips
                 /\ t.tp_price = t.entry_price - s.sl_pips * s.tp_rr

\* C18: a long signal emitted on a bar with close c has sl_price = c -
\* sl_pips * pip and tp_price = c + sl_pips * tp_rr * pip; a short signal has
\* sl_price = c + sl_pips * pip and tp_price = c - sl_pips * tp_rr * pip.
C18_LevelsFromClose ==
    (InRun /\ sig # None) =>
       LET s == cfg.strategy
       IN  IF sig.side = "long"
           THEN /\ sig.sl_price = bar.close - s.sl_pips
                /\ sig.tp_price = bar.close + s.sl_pips * s.tp_rr
           ELSE /\ sig.side = "short"
                /\ sig.sl_price = bar.close + s.sl_pips
                /\ sig.tp_price = bar.close - s.sl_pips * s.tp_rr

\* a short signal with a reward ratio of 2 on a bar that opened away from
\* its close
C18_Witness ==
    /\ InRun /\ sig # None
    /\ sig.side = "short"
    /\ cfg.strategy.tp_rr = 2
    /\ bar.open # bar.close
    /\ sig.tp_price = bar.close - 2 * cfg.strategy.sl_pips

\* the second call has returned
SecondDone == pc = "done" /\ rerun # None /\ rerun.run_no = 2

\* C19: two runs of the backtest, each with a strategy constructed from the
\* configuration, over the same bar sequence and configuration give the same
\* Stats, the same closed-trade list and the same equity curve, and the two
\* DistanceTime instances return the same signal sequence.
C19_Determinism ==
    (SecondDone /\ rerun.strategy = "fresh")
       => /\ stats = rerun.first.stats
          /\ trades = rerun.first.trades
          /\ equity_curve = rerun.first.equity_curve
          /\ rerun.signals = rerun.first.signals

\* two runs with fresh strategies, each with a closed trade of non-zero pnl
\* and a float quotient that fell below its threshold
C19_Witness ==
    /\ SecondDone /\ rerun.strategy = "fresh"
    /\ trades # <<>> /\ stats.pnl # 0
    /\ \E e \in rerun.floats : e.below
    /\ stats = rerun.first.stats

\* C20 as stated: a second call of run with the same engine and the same
\* strategy object on the same bar sequence returns the same Stats as the
\* first call.
C20_SameStatsOnRerun ==
    (SecondDone /\ rerun.strategy = "same") => stats = rerun.first.stats

\* C20, amended: a second call of run with the same engine returns the same
\* Stats when the strategy is constructed anew, or when the same strategy
\* object has a window of one bar.
C20_SameStatsFreshOrOneBar ==
    (SecondDone /\ (rerun.strategy = "fresh" \/ WindowSize = 1))
       => stats = rerun.first.stats

\* the same one-bar strategy object has served two calls that closed a trade
C20_Witness ==
    /\ SecondDone /\ rerun.strategy = "same" /\ WindowSize = 1
    /\ stats.n_trades >= 1
    /\ stats = rerun.first.stats

\* the statistics as the specification defines them, over a closed-trade list
\* ts and an equity curve
WinCount(ts) == Cardinality({i \in 1..Len(ts) : RealizedPnl(ts[i]) > 0})

ZeroOr(num, den) == IF den = 0 THEN [num |-> 0, den |-> 1] ELSE [num |-> num, den |-> den]

PeakUpTo(curve, k) ==
    CHOOSE p \in {curve[j][2] : j \in 1..k} : \A j \in 1..k : curve[j][2] <= p

MaxDrawdown(curve) ==
    IF curve = <<>>
    THEN 0
    ELSE LET dds == {PeakUpTo(curve, k) - curve[k][2] : k \in 1..Len(curve)}
         IN  CHOOSE d \in dds : \A e \in dds : e <= d

\* run returns
Returns == pc = "loop" /\ pc' = "done"

\* C22: a trade still open when the feed is exhausted stays open (exit
\* fields absent, equity not adjusted), is not in the closed-trade list, and
\* n_trades, win_rate, pnl and expectancy are computed from closed trades only.
C22_OpenTradeLeftOpen ==
    [][(Returns /\ open_trade # None)
        => /\ open_trade' = open_trade
           /\ open_trade'.exit_time = <<>> /\ open_trade'.exit_price = <<>>
           /\ trades' = trades
           /\ \A i \in 1..Len(trades') : trades'[i].entry_time # open_trade'.entry_time
           /\ equity' = equity
           /\ equity' = 100000 + SumRealized(trades')
           /\ stats'.n_trades = Len(trades')
           /\ stats'.pnl = SumRealized(trades')
           /\ stats'.win_rate = ZeroOr(WinCount(trades'), Len(trades'))
           /\ stats'.expectancy = ZeroOr(SumRealized(trades'), Len(trades'))]_vars

\* run has returned with one trade closed and another still open away from
\* the last close
C22_Witness ==
    /\ pc = "done" /\ open_trade # None
    /\ Len(trades) = 1
    /\ bar.close # open_trade.entry_price
    /\ stats.n_trades = 1

C24_MaxDrawdown ==
    pc = "done" => stats.max_dd = MaxDrawdown(equity_curve)

\* the equity rose above its first value and later fell below that peak
C24_Witness ==
    /\ pc = "done" /\ n >= 3
    /\ equity_curve[2][2] > equity_curve[1][2]
    /\ equity_curve[n][2] < equity_curve[2][2]
    /\ stats.max_dd = equity_curve[2][2] - equity_curve[n][2]

\* C25: win_rate is the number of closed trades with realized pnl > 0 over
\* the number of closed trades; a trade closed at pnl 0 counts in n_trades
\* and not as a win.
C25_WinRate ==
    (pc = "done" /\ trades # <<>>)
       => /\ stats.n_trades = Len(trades)
          /\ stats.win_rate = [num |-> WinCount(trades), den |-> Len(trades)]

\* a winning trade and a trade closed at its entry price
C25_Witness ==
    /\ pc = "done" /\ Len(trades) = 2
    /\ \E i \in 1..2 : RealizedPnl(trades[i]) = 0
    /\ \E i \in 1..2 : RealizedPnl(trades[i]) > 0
    /\ stats.win_rate = [num |-> 1, den |-> 2]

C27_OneTransitionPerBar ==
    /\ [](\A i \in 1..Len(trades) : trades[i].exit_time[1] > trades[i].entry_time)
    /\ [][Stepped
           => /\ ~(created' # created /\ trades' # trades)
              /\ created' # created
                    => /\ open_trade' # None
                       /\ open_trade'.entry_time = bar'.time
                       /\ equity' = equity
              /\ trades' # trades => open_trade' = None]_vars

\* a trade was closed on a bar for which the strategy returned a signal, and
\* no trade was opened
C27_Witness ==
    /\ InRun /\ trades # <<>> /\ open_trade = None
    /\ Last(trades).exit_time = <<bar.time>>
    /\ sig # None
    /\ created = Len(trades)

\* C28: after any prefix of the feed every closed trade has exit_time and
\* exit_price set, set in the step that moved it to the closed list and not
\* modified afterwards; the open trade has both absent; the statistics are
\* defined on the closed list and the equity curve.
C28_PartialResultConsistent ==
    /\ [](InRun => /\ \A i \in 1..Len(trades) :
                         Len(trades[i].exit_time) = 1 /\ Len(trades[i].exit_price) = 1
                   /\ open_trade # None
                         => open_trade.exit_time = <<>> /\ open_trade.exit_price = <<>>
                   /\ pc = "loop" => ENABLED Finish)
    /\ [][Stepped
           => /\ \A i \in 1..Len(trades) : trades'[i] = trades[i]
              /\ Len(trades') > Len(trades)
                    => /\ Len(trades') = Len(trades) + 1
                       /\ open_trade.exit_time = <<>> /\ open_trade.exit_price = <<>>
                       /\ Last(trades').exit_time = <<bar'.time>>]_vars

\* a closed trade and an open one before the feed is exhausted
C28_Witness ==
    /\ pc = "loop" /\ Len(trades) = 1 /\ open_trade # None
    /\ trades[1].exit_time[1] < open_trade.entry_time

\* C30: in the drawdown loop the peak never decreases and changes only on a
\* strictly higher equity, every per-point drawdown is >= 0, and max_dd is
\* >= 0 and does not decrease when the curve is extended.
C30_HighWaterMark ==
    InRun =>
       /\ \A k \in 1..Len(equity_curve) :
             LET before == RunningPeak(equity_curve, k - 1)
                 after == RunningPeak(equity_curve, k)
             IN  /\ after >= before
                 /\ after # before => equity_curve[k][2] > before
                 /\ after - equity_curve[k][2] >= 0
                 /\ MaxDD(SubSeq(equity_curve, 1, k), 1, PeakInit, 0)
                       >= MaxDD(SubSeq(equity_curve, 1, k - 1), 1, PeakInit, 0)
       /\ MaxDD(equity_curve, 1, PeakInit, 0) >= 0
       /\ pc = "done" => stats.max_dd >= 0

\* the peak moved up from the first point, and extending the curve by a
\* fourth point raised max_dd from 0
C30_Witness ==
    /\ InRun /\ n = 4
    /\ RunningPeak(equity_curve, 2) > RunningPeak(equity_curve, 1)
    /\ MaxDD(SubSeq(equity_curve, 1, 3), 1, PeakInit, 0) = 0
    /\ MaxDD(equity_curve, 1, PeakInit, 0) > 0

\* the bars fed to the strategy object so far, in arrival order: a strategy
\* that served the first call has been fed the whole list before
Fed ==
    (IF rerun.run_no = 2 /\ rerun.strategy = "same" THEN rerun.feed ELSE <<>>)
       \o SubSeq(rerun.feed, 1, n)

\* C29: after k calls of on_bar on an instance of window size N >= 1 the
\* window holds exactly the min(k, N) most recently fed bars in arrival
\* order, as a circular buffer of capacity N does.
C29_SlidingWindow ==
    (rerun # None /\ InRun)
       => LET k == Len(Fed)
              m == IF k < WindowSize THEN k ELSE WindowSize
          IN  /\ Len(window) = m
              /\ \A i \in 1..m : window[i] = Fed[k - m + i]

\* a full two-bar window has taken a third bar and dropped the first
C29_Witness ==
    /\ rerun # None /\ InRun /\ rerun.run_no = 1
    /\ WindowSize = 2 /\ n = 3
    /\ window = <<rerun.feed[2], rerun.feed[3]>>
    /\ [rerun.feed[1] EXCEPT !.time = 0] # [rerun.feed[2] EXCEPT !.time = 0]

\* the artifact of a call with the given equity curve
Artifact(curve) == <<<<"time", "equity">>>> \o curve

\* C21: two calls of run in parallel, on separate engines and strategies, do
\* not interfere under any interleaving: a call that has returned has the
\* Stats of its own closed trades and equity curve, and equity.csv holds the
\* header time,equity followed by its own equity points in order, as when
\* it runs alone.
C21_ParallelRunsIsolated ==
    /\ (par # None /\ pc = "done")
          => /\ equity_csv = Artifact(equity_curve)
             /\ stats.n_trades = Len(trades)
             /\ stats.pnl = SumRealized(trades)
             /\ stats.max_dd = MaxDrawdown(equity_curve)
    /\ (par # None /\ par.pc = "done")
          => /\ equity_csv = Artifact(par.equity_curve)
             /\ par.stats.n_trades = Len(par.trades)
             /\ par.stats.pnl = SumRealized(par.trades)
             /\ par.stats.max_dd = MaxDrawdown(par.equity_curve)

\* a bar with low <= open, close <= high
WellFormedBar(b) ==
    /\ b.low <= b.open /\ b.open <= b.high
    /\ b.low <= b.close /\ b.close <= b.high

\* C31: every trade opened by run with sl_pips > 0 and tp_rr > 0 on
\* well-formed bars has its stop-loss on the losing side and its take-profit
\* on the winning side of the entry price (long: sl_price < entry_price <
\* tp_price; short: tp_price < entry_price < sl_price), so a trade closed at
\* its stop-loss never has positive realized pnl and a trade closed at its
\* take-profit never has negative realized pnl.
C31_LevelsStraddleEntry ==
    (/\ rerun # None /\ InRun
     /\ cfg.strategy.sl_pips > 0 /\ cfg.strategy.tp_rr > 0
     /\ \A i \in 1..Len(rerun.feed) : WellFormedBar(rerun.feed[i]))
       => \A i \in 1..Len(AllTrades) :
             LET t == AllTrades[i]
             IN  /\ t.side = "long"
                       => (t.sl_price < t.entry_price /\ t.entry_price < t.tp_price)
                 /\ t.side = "short"
                       => (t.tp_price < t.entry_price /\ t.entry_price < t.sl_price)
                 /\ (t.exit_price # <<>> /\ t.exit_price[1] = t.sl_price)
                       => RealizedPnl(t) <= 0
                 /\ (t.exit_price # <<>> /\ t.exit_price[1] = t.tp_price)
                       => RealizedPnl(t) >= 0

\* the equity at the opening of the i-th closed trade
EquityBefore(i) == 100000 + SumRealized(SubSeq(trades, 1, i - 1))

\* C32: for every trade that run closes at its stop-loss, the realized loss
\* (entry-to-stop distance x volume x 100000) is at most risk_pct percent of
\* the equity at the bar the trade was opened.
C32_StopLossWithinRisk ==
    InRun =>
       \A i \in 1..Len(trades) :
          LET t == trades[i]
              loss == abs(t.entry_price - t.sl_price) * t.volume
          IN  t.exit_price = <<t.sl_price>>
                 => loss * 100 <= (EquityBefore(i) * cfg.risk_pct.num)
                                     \div cfg.risk_pct.den

\* C33: the closed-trade list of run is in chronological order and its trades
\* never overlap: every closed trade has its entry bar before its exit bar,
\* and of two consecutive trades the earlier one's exit bar is strictly
\* before the later one's entry bar.
C33_TradesChronological ==
    InRun =>
       /\ \A i \in 1..Len(trades) :
             /\ trades[i].exit_time # <<>>
             /\ trades[i].entry_time < trades[i].exit_time[1]
       /\ \A i \in 1..(Len(AllTrades) - 1) :
             AllTrades[i].exit_time[1] < AllTrades[i + 1].entry_time

\* a trade was opened on the bar right after the bar that closed the trade
\* before it, and has been closed in turn
C33_Witness ==
    /\ InRun /\ Len(trades) = 2
    /\ trades[2].entry_time = trades[1].exit_time[1] + 60
    /\ trades[2].exit_time[1] = trades[2].entry_time + 60

\* the window of a strategy instance that has been fed the bars q, one call
\* of on_bar each, and nothing else
StandaloneWindow(q) ==
    LET m == IF Len(q) < WindowSize THEN Len(q) ELSE WindowSize
    IN  SubSeq(q, Len(q) - m + 1, Len(q))

\* the values on_bar can return to a standalone caller after the bars q: the
\* outcome of a float division already evaluated is the recorded one
StandaloneSignals(q) ==
    LET w == StandaloneWindow(q)
    IN  { signal(cfg, w, 5, below) : below \in
            { x \in BOOLEAN :
                \A d \in rerun.floats :
                   (/\ Len(w) = WindowSize
                    /\ d.op = "dist"
                    /\ d.args = <<SeqMax({w[i].high : i \in 1..Len(w)}),
                                  SeqMin({w[i].low : i \in 1..Len(w)})>>)
                      => d.below = x } }

\* C34: run feeds every bar of the feed to the strategy exactly once and in
\* feed order, whether or not a position is open: the strategy's window and
\* the sequence of signals it returns during a run are those of the strategy
\* fed the same bars standalone, whatever the position state and the equity.
C34_StrategyFedEveryBar ==
    (rerun # None /\ InRun) =>
       /\ Len(rerun.signals) = n
       /\ window = StandaloneWindow(Fed)
       /\ \A k \in 1..n :
             rerun.signals[k] \in
                StandaloneSignals(SubSeq(Fed, 1, Len(Fed) - n + k))

\* the strategy returned a signal on a bar taken while a trade opened on an
\* earlier bar was still open, from a two-bar window
C34_Witness ==
    /\ rerun # None /\ InRun /\ rerun.run_no = 1
    /\ WindowSize = 2 /\ n = 3
    /\ Len(trades) = 0 /\ open_trade # None
    /\ open_trade.entry_time < bar.time
    /\ sig # None /\ rerun.signals[n] = sig
    /\ window = <<rerun.feed[2], rerun.feed[3]>>

\* a trade was closed on the k-th bar
ClosedOnBar(k) == \E i \in 1..Len(trades) : trades[i].exit_time = <<60 * k>>

\* C35: equity changes only on a bar where a trade closes: the first equity
\* point is always 10000, and on every bar that opens a trade or neither
\* opens nor closes one the appended equity point equals the equity of the
\* point before it.
C35_EquityChangesOnlyOnClose ==
    (InRun /\ n >= 1) =>
       /\ Len(equity_curve) = n
       /\ equity_curve[1][2] = 100000
       /\ \A k \in 2..n :
             ~ClosedOnBar(k) => equity_curve[k][2] = equity_curve[k - 1][2]

\* a trade was closed with a loss or a gain on the second bar and the next
\* trade opened on the third bar: the third point repeats the second
C35_Witness ==
    /\ InRun /\ n = 3
    /\ Len(trades) = 1 /\ ClosedOnBar(2)
    /\ open_trade # None /\ open_trade.entry_time = 180
    /\ equity_curve[2][2] # 100000
    /\ equity_curve[3][2] = equity_curve[2][2]

\* the extremes of the bars of the window before the latest one
PriorHigh == CHOOSE h \in {window[i].high : i \in 1..(Len(window) - 1)} :
                \A i \in 1..(Len(window) - 1) : window[i].high <= h

PriorLow == CHOOSE l \in {window[i].low : i \in 1..(Len(window) - 1)} :
               \A i \in 1..(Len(window) - 1) : l <= window[i].low

\* C36 as stated: a signal is produced by on_bar only when the latest close
\* exceeds the high (long) or low (short) extreme of the trailing bar window
\* by at least the configured distance; the trailing window is read either
\* as the window with the latest bar or as the bars before it.
C36_CloseExceedsExtremeByDistance ==
    (InRun /\ sig # None) =>
       LET d == cfg.strategy.distance_pips
       IN  /\ sig.side = "long"
                => \/ bar.close - WindowHigh >= d
                   \/ Len(window) >= 2 /\ bar.close - PriorHigh >= d
           /\ sig.side = "short"
                => \/ WindowLow - bar.close >= d
                   \/ Len(window) >= 2 /\ PriorLow - bar.close >= d

\* C36: a signal is produced by on_bar only when the window is full, the
\* range of the window (max high - min low, the latest bar included) is at
\* least the configured distance in pips, and the latest close is at or
\* above the window's high (long) or at or below its low (short).
C36_SignalOnlyOnWideRangeAtExtreme ==
    (InRun /\ sig # None) =>
       /\ WindowFull
       /\ WindowHigh - WindowLow >= cfg.strategy.distance_pips
       /\ sig.side \in {"long", "short"}
       /\ sig.side = "long" => bar.close >= WindowHigh
       /\ sig.side = "short" => bar.close <= WindowLow

\* a long signal from a two-bar window whose range reaches the distance,
\* on a close that is level with the high of the bar before
C36_Witness ==
    /\ InRun /\ sig # None /\ sig.side = "long"
    /\ WindowSize = 2 /\ WindowFull
    /\ cfg.strategy.distance_pips > 0
    /\ WindowHigh - WindowLow >= cfg.strategy.distance_pips
    /\ bar.close = WindowHigh
    /\ bar.close = PriorHigh

\* C37: the window includes the bar just pushed, so for well-formed bars
\* (low <= close <= high) on_bar emits a long signal only on a bar whose
\* close equals its own high, that high being the maximum high of the
\* window, and a short signal only on a bar whose close equals its own low,
\* that low being the minimum low of the window.
C37_SignalBarClosesAtExtreme ==
    (InRun /\ sig # None /\ bar.low <= bar.close /\ bar.close <= bar.high) =>
       /\ sig.side = "long"
             => (bar.close = bar.high /\ bar.high = WindowHigh)
       /\ sig.side = "short"
             => (bar.close = bar.low /\ bar.low = WindowLow)
       /\ sig.side \in {"long", "short"}

\* a short signal from a two-bar window on a bar that opened above its
\* close and made a lower low than the bar before it
C37_Witness ==
    /\ InRun /\ sig # None /\ sig.side = "short"
    /\ WindowSize = 2 /\ WindowFull
    /\ bar.low <= bar.close /\ bar.close <= bar.high
    /\ bar.open > bar.close
    /\ bar.low < window[1].low
    /\ bar.close = WindowLow

\* the latest close is at or above the window's high and at or below its low
Tie == bar.close >= WindowHigh /\ bar.close <= WindowLow

\* C38: on_bar breaks the direction tie deterministically: when the latest
\* close satisfies both close >= window_high and close <= window_low
\* (possible, on bars with low <= high, only when the window range is 0 and
\* the threshold is <= 0) it returns a long signal, never a short one, and it
\* never returns more than one signal per bar.
C38_TieGoesLong ==
    (WindowFull /\ n >= 1 /\ Tie) =>
       /\ sig # None => sig = Signal("long", sig.sl_price, sig.tp_price)
       /\ (\A i \in 1..Len(window) : window[i].low <= window[i].high)
             => /\ WindowHigh - WindowLow = 0
                /\ (sig # None) <=> (cfg.strategy.distance_pips <= 0)

\* a flat bar in a one-bar window with distance 0: both tests hold and the
\* signal is long
C38_Witness ==
    /\ WindowFull /\ n >= 1 /\ Tie
    /\ bar.high = bar.low
    /\ cfg.strategy.distance_pips = 0
    /\ sig # None /\ sig.side = "long"

C40_PipSize ==
    /\ pc = "pipret"
          => /\ cv.exec = <<IF cv.digits = 1 \/ cv.digits = 2 \/ cv.digits = 3
                            THEN 100 ELSE 1>>
             /\ cv.strategy = cv.exec
    /\ (InRun /\ sig # None)
          => abs(sig.sl_price - bar.close) = cfg.strategy.sl_pips * 1

\* both functions have returned 0.01 for one-digit quotes
C40_Witness ==
    /\ pc = "pipret"
    /\ cv.digits = 1
    /\ cv.exec = <<100>> /\ cv.strategy = <<100>>
====
